---- MODULE Spec2Model ----
(***************************************************************************)
(* Model of failover-handler.py, the Serf event handler that moves an AWS  *)
(* elastic ip between instances.  One run of main() is a process whose     *)
(* position is pc; the cloud, the Serf agent, the probed peers and the OS  *)
(* are environments whose answers are drawn nondeterministically.          *)
(***************************************************************************)
EXTENDS Integers, Sequences, FiniteSets, TLC

VARIABLES
    config,         \* Config.config_dict: zone key -> entry
    event,          \* os.environ['SERF_EVENT']
    stdin,          \* the rows Serf writes to the handler's stdin
    members,        \* main(): members, the parsed rows with role = ROLE
    pc,             \* position of main()
    idx,            \* position of "for member in members" (1-based)
    serf_alive,     \* what "serf members ... -status=alive" answered
    quorum_result,  \* what quorum() returned in this invocation
    peer_alive,     \* the alive count seen behind a network partition
    peer_quorum,    \* what quorum() returned behind the partition
    result,         \* is_member_down: result
    total_retries,  \* is_member_down: total_retries
    attempts,       \* history: connection attempts of the current probe
    connected,      \* history: an attempt of the current probe connected
    eth1_status,    \* cloud: status of the standby interface (eth1_id)
    trace,          \* history: the external actions performed, in order
    exc,            \* the exception main() caught, or NoExc
    conf_file,      \* /etc/eip.conf: "ok", "missing" or "malformed"
    escaped,        \* the exception that left main() uncaught, or NoExc
    assoc,          \* cloud: the interface each elastic ip is associated with
    passes,         \* attach_interface: parity of the passes of "while True"
    run,            \* invocations of the handler on this node so far
    prev,           \* history: the previous invocation and the cloud after it
    lookup,         \* the last Config.elastic_ip_allocation_id call
    nodes,          \* the survivors handling one failure concurrently
    applied         \* history: the survivors whose associate call was applied

vars == <<config, event, stdin, members, pc, idx, serf_alive, quorum_result,
          peer_alive, peer_quorum, result, total_retries, attempts,
          connected, eth1_status, trace, exc, conf_file, escaped, assoc,
          passes, run, prev, lookup, nodes, applied>>

\* What one invocation of main() on this node never changes after the load
auxMain == <<conf_file, escaped, run, prev, lookup, nodes, applied>>

----------------------------------------------------------------------------
(* Bounds of the model *)

MaxMembers == 2     \* rows in one event payload
MaxT == 5           \* zones of a registry in the quorum specification
MaxRuns == 2        \* successive invocations of the handler on one node
MaxSurvivors == 3   \* nodes that handle the failure of one peer concurrently

----------------------------------------------------------------------------
(* Program constants and the values of the environment *)

ROLE == "eip"

TotalRetries == 3

ECONNREFUSED == 111

ZoneNames == <<"eu-west-1a", "eu-west-1b", "eu-west-1c", "eu-west-1d",
               "eu-west-1e", "eu-west-1f", "eu-west-1g", "eu-west-1h">>

Zones == {ZoneNames[1], ZoneNames[2], ZoneNames[3]}

\* Handler.current_az: metadata['placement']['availability-zone']
current_az == ZoneNames[1]

NoAz == "<no az tag>"       \* a row whose tags carry no az key
None == "None"
Unset == "unset"
NoExc == "none"
QueryFailed == 0 - 1        \* the serf command printed no member list

Events == {"member-join", "member-leave", "member-failed", "member-update"}

\* A zone entry of /etc/eip.conf: a dict with the allocation id ("eip"), a
\* dict without it ("noeip") or a value that is no dict ("nodict").  An entry
\* is [isdict, fields], fields being the dict's keys and values.
AllocId(z) == <<"eipalloc", z>>
EniId(z) == <<"eni", z>>
EntryKinds == {"eip", "noeip"}
AllEntryKinds == EntryKinds \cup {"nodict"}
Entry(kind, z) ==
    [isdict |-> kind # "nodict",
     fields |->
        [k \in (CASE kind = "eip" -> {"elastic_ip_allocation_id", "eth1_id"}
                  [] kind = "noeip" -> {"eth1_id"}
                  [] OTHER -> {})
           |-> IF k = "eth1_id" THEN EniId(z) ELSE AllocId(z)]]

Configs ==
    UNION {[zs -> EntryKinds] : zs \in SUBSET Zones}

MkConfig(kinds) == [z \in DOMAIN kinds |-> Entry(kinds[z], z)]

\* Rows of the payload: hostname \t ip \t role \t tags; cols is the number
\* of tab-separated columns of the row
Rows ==
    [ip : {"10.0.0.1"}, role : {ROLE}, az : Zones \cup {NoAz}, cols : {4}]
    \cup [ip : {"10.0.0.9"}, role : {"web"}, az : {NoAz}, cols : {4}]
    \cup [ip : {"10.0.0.7"}, role : {ROLE}, az : {ZoneNames[2]}, cols : {3}]

RECURSIVE SeqsUpTo(_, _)
SeqsUpTo(S, n) ==
    IF n = 0 THEN {<<>>}
    ELSE LET shorter == SeqsUpTo(S, n - 1)
         IN  shorter \cup {Append(s, x) : s \in {t \in shorter : Len(t) = n - 1}, x \in S}

Payloads == SeqsUpTo(Rows, MaxMembers)

Statuses == {"available", "in-use", "detaching", "notfound"}

----------------------------------------------------------------------------
(* Config *)

num_zones(cfg) == Cardinality(DOMAIN cfg)

\* dict.get(key): the value, or None (here <<>>) without the key
Get(d, key) == IF key \in DOMAIN d THEN d[key] ELSE <<>>

\* Variant: the lookup of the sibling method, entry.get('eth1_id')
elastic_ip_allocation_id_eth1(cfg, az) ==
    IF cfg[az].isdict THEN Get(cfg[az].fields, "eth1_id") ELSE <<>>

\* Config.elastic_ip_allocation_id(az); config_dict[az] raises KeyError for
\* an az outside DOMAIN cfg, which the callers model
elastic_ip_allocation_id(cfg, az) ==
    IF cfg[az].isdict THEN Get(cfg[az].fields, "elastic_ip_allocation_id") ELSE <<>>

\* Config.eth1_id(az)
eth1_id(cfg, az) ==
    IF cfg[az].isdict THEN Get(cfg[az].fields, "eth1_id") ELSE <<>>

----------------------------------------------------------------------------
(* Quorum *)

\* Variant: the smallest count above one half, t / 2 + 1
ThresholdStrict(t) == (t \div 2) + 1

\* n = t - t / 2 (integer division)
Threshold(t) == t - (t \div 2)

\* jq '.members | length >= n': prints nothing when serf printed no list
Jq(out, n) ==
    IF out = QueryFailed THEN ""
    ELSE IF out >= n THEN "true" ELSE "false"

\* Variant: grep -v false, which also accepts an empty answer
GrepNotFalse(line) == IF line = "false" THEN 1 ELSE 0

\* grep true: exit status 0 iff a line matched
Grep(line) == IF line = "true" THEN 0 ELSE 1

\* Quorum.alive(n): res == 0
Alive(n, out) == Grep(Jq(out, n)) = 0

\* Quorum.quorum()
Quorum(cfg, out) == Alive(Threshold(num_zones(cfg)), out)

AsResult(b) == IF b THEN "yes" ELSE "no"

----------------------------------------------------------------------------
(* Membership payload *)

\* SerfMember.parse_member: "hostname, ip, role, tagstr = row.split('\t')"
\* raises ValueError unless the row has exactly 4 columns
Parses(row) == row.cols = 4

\* SerfMember.parse_member: the SerfMember built from a row of 4 columns
parse_member(row) == [ip |-> row.ip, role |-> row.role, az |-> row.az]

\* map(SerfMember.parse, sys.stdin.readlines()): every row is parsed before
\* any is filtered
RECURSIVE MapParse(_)
MapParse(rows) ==
    IF rows = <<>> THEN <<>>
    ELSE <<parse_member(Head(rows))>> \o MapParse(Tail(rows))

ParseRaises(rows) == \E i \in 1 .. Len(rows) : ~Parses(rows[i])

RECURSIVE SelectRole(_)
SelectRole(rows) ==
    IF rows = <<>> THEN <<>>
    ELSE IF Head(rows).role = ROLE
         THEN <<Head(rows)>> \o SelectRole(Tail(rows))
         ELSE SelectRole(Tail(rows))

\* get_serf_members(), for a payload whose rows all parse
get_serf_members(rows) == SelectRole(MapParse(rows))

----------------------------------------------------------------------------
\* The cloud before any failover: every elastic ip of the registry is on the
\* primary interface of the node of its own zone
HomeAssoc(cfg) ==
    {[zone |-> z, node |-> z, iface |-> "eth0"] :
        z \in {y \in DOMAIN cfg : elastic_ip_allocation_id(cfg, y) # <<>>}}

NoPrev == [run |-> 0]

NoLookup == [az |-> "-", value |-> <<>>, called |-> FALSE]

Init ==
    /\ conf_file \in {"ok", "missing", "malformed"}
    /\ config \in {MkConfig(k) : k \in Configs}
    /\ conf_file # "ok" => DOMAIN config = {}
    /\ event \in Events
    /\ stdin \in Payloads
    /\ members = <<>>
    /\ pc = "load"
    /\ escaped = NoExc
    /\ assoc = HomeAssoc(config)
    /\ passes = 0
    /\ run = 1
    /\ prev = NoPrev
    /\ lookup = NoLookup
    /\ nodes = <<>>
    /\ applied = <<>>
    /\ idx = 0
    /\ serf_alive = QueryFailed
    /\ quorum_result = Unset
    /\ peer_alive = QueryFailed
    /\ peer_quorum = Unset
    /\ result = 0 - 1
    /\ total_retries = 0
    /\ attempts = 0
    /\ connected = FALSE
    /\ eth1_status \in Statuses
    /\ trace = <<>>
    /\ exc = NoExc

\* main(): "with open(config_location) as f: config = Config(json.load(f))",
\* which stands before the try block: IOError and ValueError leave main()
LoadConfig ==
    /\ pc = "load"
    /\ IF conf_file = "ok"
       THEN pc' = "start" /\ escaped' = escaped
       ELSE /\ pc' = "exit"
            /\ escaped' = IF conf_file = "missing" THEN "IOError" ELSE "ValueError"
    /\ UNCHANGED <<config, event, stdin, members, idx, serf_alive,
                   quorum_result, peer_alive, peer_quorum, result,
                   total_retries, attempts, connected, eth1_status, trace, exc,
                   conf_file, assoc, passes, run, prev, lookup, nodes, applied>>

\* Variant: no test for an empty member list
AfterReadNoTest(ms) == "quorum"

\* main(): "if not members: return"
AfterRead(ms) == IF ms = <<>> THEN "done" ELSE "quorum"

\* main(): members = get_serf_members(), where sys.stdin.readlines() consumes
\* the payload and a row that does not parse raises ValueError inside the
\* try block; if not members: return
ReadMembers ==
    /\ pc = "start"
    /\ stdin' = <<>>
    /\ IF ParseRaises(stdin)
       THEN /\ exc' = "ValueError"
            /\ pc' = "done"
            /\ members' = members
       ELSE /\ members' = get_serf_members(stdin)
            /\ pc' = AfterRead(members')
            /\ exc' = exc
    /\ UNCHANGED <<config, event, idx, serf_alive, quorum_result,
                   peer_alive, peer_quorum, result, total_retries, attempts,
                   connected, eth1_status, trace>>
    /\ UNCHANGED <<auxMain, assoc, passes>>

----------------------------------------------------------------------------
(* Quorum gate and dispatch on the event kind *)

\* main(): "if event == 'member-join' ... elif event in [...]"
Dispatch(ev) ==
    IF ev = "member-join" THEN "join_claim"
    ELSE IF ev \in {"member-leave", "member-failed"} THEN "loop"
    ELSE "done"

\* Variant: the dispatch without the quorum gate
AfterQuorumNoGate(q, ev) == Dispatch(ev)

\* main(): "if not quorum(): return", then the dispatch
AfterQuorum(q, ev) == IF q THEN Dispatch(ev) ELSE "done"

\* main(): quorum(), with the answer of the serf query drawn from what the
\* agent can print: no list at all, or a count of alive members
CheckQuorum ==
    /\ pc = "quorum"
    /\ \E out \in QueryFailed .. num_zones(config) :
         /\ serf_alive' = out
         /\ quorum_result' = AsResult(Quorum(config, out))
         /\ pc' = AfterQuorum(Quorum(config, out), event)
    /\ idx' = IF pc' = "loop" THEN 1 ELSE idx
    /\ UNCHANGED <<config, event, stdin, members, peer_alive, peer_quorum,
                   result, total_retries, attempts, connected, eth1_status,
                   trace, exc>>
    /\ UNCHANGED <<auxMain, assoc, passes>>

\* The same quorum() run by a node on the other side of a partition: the two
\* sides see disjoint sets of alive members of one registry.
PeerCheckQuorum ==
    /\ quorum_result # Unset
    /\ peer_quorum = Unset
    /\ \E out \in QueryFailed .. num_zones(config) :
         /\ (out >= 0 /\ serf_alive >= 0) => out + serf_alive <= num_zones(config)
         /\ peer_alive' = out
         /\ peer_quorum' = AsResult(Quorum(config, out))
    /\ UNCHANGED <<config, event, stdin, members, pc, idx, serf_alive,
                   quorum_result, result, total_retries, attempts, connected,
                   eth1_status, trace, exc>>
    /\ UNCHANGED <<auxMain, assoc, passes>>

----------------------------------------------------------------------------
(* Handler *)

\* One external action: the call, the zone and the interface it is about, the
\* member of the loop it is made for (0 on member-join) and, for the calls
\* guarded by a status check, the status the standby interface had
Act(op, az, iface, peer, was) ==
    [op |-> op, az |-> az, iface |-> iface, peer |-> peer, was |-> was]

\* Handler.handle: az = az or self.current_az
HandleAz(az) == IF az = None THEN current_az ELSE az

\* instance.interfaces: the primary interface, and the standby one while it
\* is attached
InstanceInterfaces(status) ==
    IF status = "in-use" THEN <<"eth0", "eth1">> ELSE <<"eth0">>

NotEth1(i) == i # "eth1"

\* Variant: the last interface of the instance, without the filter
Eth0IdLast(status) ==
    InstanceInterfaces(status)[Len(InstanceInterfaces(status))]

\* Handler.eth0_id: the first interface of the instance that is not eth1
Eth0Id(status) == SelectSeq(InstanceInterfaces(status), NotEth1)[1]

\* Handler.take_elastic_ip on the node of zone self_az, whose standby
\* interface has the given status:
\* interface_id = self.eth0_id if az == self.current_az else self.eth1_id
TakeInterface(az, self_az, status) ==
    IF az = self_az THEN Eth0Id(status) ELSE "eth1"

InterfaceFor(az) == TakeInterface(az, current_az, eth1_status)

\* Variant: detach whatever the status
ShouldDetachAny(status) == TRUE

\* Handler.detach_interface: interface and interface[0].status == 'in-use'
ShouldDetach(status) == status = "in-use"

\* Variant: attach unless the interface is in use
ShouldAttachUnlessInUse(status) == status # "in-use"

\* Handler.attach_interface: interface and interface[0].status == 'available'
ShouldAttach(status) == status = "available"

\* Handler.eth1_id: self.config.eth1_id(self.current_az), a KeyError when the
\* local zone is not in the registry
LocalZoneKnown == current_az \in DOMAIN config

\* Variant: associate_address without allow_reassociation
AllowReassociationOff == FALSE

\* associate_address(..., allow_reassociation=True)
AllowReassociation == TRUE

\* The cloud's associate_address: the elastic ip of zone z goes to interface
\* iface of the node of zone n; an address that is associated elsewhere is
\* moved when reassociation is allowed and stays where it is (the call is
\* refused) when it is not
Associate(a, z, n, iface, allow) ==
    LET held == {x \in a : x.zone = z}
        new == [zone |-> z, node |-> n, iface |-> iface]
    IN  IF held = {} \/ held = {new} THEN a \cup {new}
        ELSE IF allow THEN (a \ held) \cup {new}
        ELSE a

\* The cloud after the calls of one take_elastic_ip made on this node
AssocAfter(a, acts) ==
    IF acts = <<>> THEN a
    ELSE Associate(a, acts[1].az, current_az, acts[1].iface, AllowReassociation)

\* Variant: take_elastic_ip without "if elastic_ip_allocation_id:"
TakeElasticIpUnguarded(az, p) ==
    IF az \notin DOMAIN config \/ ~LocalZoneKnown THEN {<<"ZoneKeyError", <<>>>>}
    ELSE {<<NoExc, <<Act("associate", az, InterfaceFor(az), p, "-")>>>>,
          <<"AssociateError", <<>>>>}

\* The outcomes of Handler.take_elastic_ip(az) for peer p, as the pair
\* <<exception, actions appended>>; config_dict[az] and Handler.eth1_id raise
\* KeyError for a zone outside the registry, and the cloud call may raise.
TakeElasticIp(az, p) ==
    IF az \notin DOMAIN config THEN {<<"ZoneKeyError", <<>>>>}
    ELSE IF elastic_ip_allocation_id(config, az) = <<>> THEN {<<NoExc, <<>>>>}
    ELSE IF ~LocalZoneKnown THEN {<<"ZoneKeyError", <<>>>>}
    ELSE {<<NoExc, <<Act("associate", az, InterfaceFor(az), p, "-")>>>>,
          <<"AssociateError", <<>>>>}

\* main(), member-join: handler.handle()
JoinHandle ==
    /\ pc = "join_claim"
    /\ \E o \in TakeElasticIp(HandleAz(None), 0) :
         /\ exc' = o[1]
         /\ trace' = trace \o o[2]
         /\ assoc' = AssocAfter(assoc, o[2])
         /\ pc' = IF o[1] = NoExc THEN "join_detach" ELSE "done"
    /\ UNCHANGED <<config, event, stdin, members, idx, serf_alive,
                   quorum_result, peer_alive, peer_quorum, result,
                   total_retries, attempts, connected, eth1_status>>
    /\ UNCHANGED <<auxMain, passes>>

\* main(), member-join: handler.detach_interface(); the describe call may
\* raise in any status, the detach call only when it is made
JoinDetach ==
    /\ pc = "join_detach"
    /\ pc' = "done"
    /\ IF ~LocalZoneKnown
       THEN exc' = "ZoneKeyError" /\ UNCHANGED <<eth1_status, trace>>
       ELSE \/ /\ ShouldDetach(eth1_status)
               /\ eth1_status' = "available"
               /\ trace' = Append(trace, Act("detach", current_az, "eth1", 0, eth1_status))
               /\ exc' = exc
            \/ /\ ShouldDetach(eth1_status)
               /\ exc' = "DetachError"
               /\ UNCHANGED <<eth1_status, trace>>
            \/ /\ ~ShouldDetach(eth1_status)
               /\ UNCHANGED <<eth1_status, trace, exc>>
            \/ /\ exc' = "DescribeError"
               /\ UNCHANGED <<eth1_status, trace>>
    /\ UNCHANGED <<config, event, stdin, members, idx, serf_alive,
                   quorum_result, peer_alive, peer_quorum, result,
                   total_retries, attempts, connected>>
    /\ UNCHANGED <<auxMain, assoc, passes>>

----------------------------------------------------------------------------
(* member-leave / member-failed: one pass of the loop per reported member *)

\* SerfMember.az: self.tags['az'] raises KeyError without the tag
HasAz(m) == m.az # NoAz

\* "for member in members": the next iteration, or the end of main()
NextMember(i) == IF i < Len(members) THEN "loop" ELSE "done"

\* main(): log("Member reported left/failed, ip=%s, az=%s"), which reads
\* member.az, then the entry of is_member_down(member.ip)
LogMember ==
    /\ pc = "loop"
    /\ IF HasAz(members[idx])
       THEN /\ pc' = "probe"
            /\ result' = 0 - 1
            /\ total_retries' = TotalRetries
            /\ attempts' = 0
            /\ connected' = FALSE
            /\ exc' = exc
       ELSE /\ pc' = "done"
            /\ exc' = "KeyError"
            /\ UNCHANGED <<result, total_retries, attempts, connected>>
    /\ UNCHANGED <<config, event, stdin, members, idx, serf_alive,
                   quorum_result, peer_alive, peer_quorum, eth1_status, trace>>
    /\ UNCHANGED <<auxMain, assoc, passes>>

ProbeOutcomes == {"connected", "refused", "exception"}

\* is_member_down: result after one attempt; an exception leaves it as it was
ResultAfter(r, o) ==
    IF o = "connected" THEN 0
    ELSE IF o = "refused" THEN ECONNREFUSED
    ELSE r

\* Variant: no break on a successful connection
ProbeOverExhausted(r, retries) == retries = 0

\* is_member_down: "if result == 0: break" and "while total_retries > 0"
ProbeOver(r, retries) == r = 0 \/ retries = 0

\* Variant: every probed member is reported down
IsDownAlways(r) == TRUE

\* is_member_down: return False if result == 0 else True
IsDown(r) == r # 0

\* is_member_down: one pass of the while loop (try / except / finally); on
\* the last pass the function returns and main() takes the branch of
\* "if not is_member_down(member.ip): continue".  The trace records what the
\* peer did (whether it accepted a connection), the branch what was returned.
ProbeAttempt ==
    /\ pc = "probe"
    /\ total_retries > 0
    /\ \E o \in ProbeOutcomes :
         /\ result' = ResultAfter(result, o)
         /\ connected' = (connected \/ o = "connected")
    /\ total_retries' = total_retries - 1
    /\ attempts' = attempts + 1
    /\ IF ProbeOver(result', total_retries')
       THEN /\ trace' = Append(trace, Act(IF connected' THEN "probe_up" ELSE "probe_down",
                                          members[idx].az, "-", idx, "-"))
            /\ IF IsDown(result')
               THEN pc' = "attach" /\ idx' = idx
               ELSE pc' = NextMember(idx) /\ idx' = idx + 1
       ELSE UNCHANGED <<trace, pc, idx>>
    /\ UNCHANGED <<config, event, stdin, members, serf_alive, quorum_result,
                   peer_alive, peer_quorum, eth1_status, exc>>
    /\ UNCHANGED <<auxMain, assoc, passes>>

\* Handler.attach_interface up to ec2.attach_network_interface; the describe
\* call may raise in any status, the attach call only when it is made
AttachInterface ==
    /\ pc = "attach"
    /\ IF ~LocalZoneKnown
       THEN exc' = "ZoneKeyError" /\ pc' = "done" /\ UNCHANGED <<eth1_status, trace>>
       ELSE \/ /\ ShouldAttach(eth1_status)
               /\ eth1_status' = "in-use"
               /\ trace' = Append(trace, Act("attach", members[idx].az, "eth1", idx, eth1_status))
               /\ pc' = "ifup"
               /\ exc' = exc
            \/ /\ ShouldAttach(eth1_status)
               /\ exc' = "AttachError"
               /\ pc' = "done"
               /\ UNCHANGED <<eth1_status, trace>>
            \/ /\ ~ShouldAttach(eth1_status)
               /\ pc' = "claim"
               /\ UNCHANGED <<eth1_status, trace, exc>>
            \/ /\ exc' = "DescribeError"
               /\ pc' = "done"
               /\ UNCHANGED <<eth1_status, trace>>
    /\ UNCHANGED <<config, event, stdin, members, idx, serf_alive,
                   quorum_result, peer_alive, peer_quorum, result,
                   total_retries, attempts, connected>>
    /\ UNCHANGED <<auxMain, assoc, passes>>

\* What "ifconfig" lists after an ifdown/ifup of eth1
IfconfigOutputs == {{"eth0"}, {"eth0", "eth1"}, {"eth0", "eth1", "eth1:0"}}

\* ifconfig | grep -o eth1 || echo "": one line "eth1" per match
GrepEth1(names) == Cardinality(names \cap {"eth1", "eth1:0"})

\* Variant: the loop is left after the first ifup
DevIsEth1Any(names) == TRUE

\* attach_interface: dev == "eth1" (the stripped output is one line "eth1")
DevIsEth1(names) == GrepEth1(names) = 1

LastOp == IF trace = <<>> THEN "-" ELSE trace[Len(trace)].op

\* Handler.attach_interface: one pass of "while True"; consecutive passes
\* are recorded in the trace as one "ifup", and the pass that leaves the loop
\* records whether ifconfig listed eth1 ("present") or not ("absent")
IfUp ==
    /\ pc = "ifup"
    /\ \E names \in IfconfigOutputs :
         LET called == IF LastOp = "ifup" THEN trace
                       ELSE Append(trace, Act("ifup", members[idx].az, "eth1", idx, "-"))
             seen == IF "eth1" \in names THEN "present" ELSE "absent"
         IN  IF DevIsEth1(names)
             THEN /\ trace' = Append(called, Act(seen, members[idx].az, "eth1", idx, "-"))
                  /\ pc' = "claim"
                  /\ passes' = 0
             ELSE /\ trace' = called
                  /\ pc' = "ifup"
                  /\ passes' = 1 - passes
    /\ UNCHANGED <<config, event, stdin, members, idx, serf_alive,
                   quorum_result, peer_alive, peer_quorum, result,
                   total_retries, attempts, connected, eth1_status, exc>>
    /\ UNCHANGED <<auxMain, assoc>>

\* main(): handler.handle(az=member.az), then the next member
Claim ==
    /\ pc = "claim"
    /\ \E o \in TakeElasticIp(HandleAz(members[idx].az), idx) :
         /\ exc' = o[1]
         /\ trace' = trace \o o[2]
         /\ assoc' = AssocAfter(assoc, o[2])
         /\ pc' = IF o[1] = NoExc THEN NextMember(idx) ELSE "done"
         /\ idx' = IF o[1] = NoExc THEN idx + 1 ELSE idx
    /\ UNCHANGED <<config, event, stdin, members, serf_alive, quorum_result,
                   peer_alive, peer_quorum, result, total_retries, attempts,
                   connected, eth1_status>>
    /\ UNCHANGED <<auxMain, passes>>

Next ==
    \/ LoadConfig
    \/ ReadMembers
    \/ CheckQuorum
    \/ JoinHandle
    \/ JoinDetach
    \/ LogMember
    \/ ProbeAttempt
    \/ AttachInterface
    \/ IfUp
    \/ Claim


Spec == Init /\ [][Next]_vars

----------------------------------------------------------------------------
(* The quorum check alone, for registries of every size up to MaxT, run on  *)
(* both sides of a network partition                                        *)

Registry(t) == [z \in {ZoneNames[i] : i \in 1 .. t} |-> Entry("eip", z)]

InitQuorum ==
    /\ config \in {Registry(t) : t \in 0 .. MaxT}
    /\ event \in Events
    /\ stdin = <<>>
    /\ members = <<[ip |-> "10.0.0.1", role |-> ROLE, az |-> ZoneNames[2]]>>
    /\ pc = "quorum"
    /\ idx = 0
    /\ serf_alive = QueryFailed
    /\ quorum_result = Unset
    /\ peer_alive = QueryFailed
    /\ peer_quorum = Unset
    /\ result = 0 - 1
    /\ total_retries = 0
    /\ attempts = 0
    /\ connected = FALSE
    /\ eth1_status = "available"
    /\ trace = <<>>
    /\ exc = NoExc
    /\ conf_file = "ok"
    /\ escaped = NoExc
    /\ assoc = HomeAssoc(config)
    /\ passes = 0
    /\ run = 1
    /\ prev = NoPrev
    /\ lookup = NoLookup
    /\ nodes = <<>>
    /\ applied = <<>>

NextQuorum ==
    \/ CheckQuorum
    \/ PeerCheckQuorum

SpecQuorum == InitQuorum /\ [][NextQuorum]_vars

----------------------------------------------------------------------------
(* One run of main() that is never suspended for good: the process keeps     *)
(* taking its next step whenever it has one.  The registry is the three-zone *)
(* one of the module docstring and the payload has at most one row.          *)

InitLive ==
    /\ Init
    /\ conf_file = "ok"
    /\ config = Registry(Cardinality(Zones))
    /\ Len(stdin) <= 1

SpecLive == InitLive /\ [][Next]_vars /\ WF_vars(Next)

----------------------------------------------------------------------------
(* Successive invocations of the handler on one node: Serf runs it once per  *)
(* event, and the cloud keeps its state from one invocation to the next.     *)
(* The registry is the three-zone one and every payload is one row of the    *)
(* expected role.                                                            *)

OneMember == {<<r>> : r \in {x \in Rows : x.role = ROLE /\ Parses(x) /\ HasAz(x)}}

InitSeq ==
    /\ Init
    /\ conf_file = "ok"
    /\ config = Registry(Cardinality(Zones))
    /\ stdin \in OneMember

\* The next event: a fresh process, the same registry, the same cloud
NextRun ==
    /\ pc = "done"
    /\ run < MaxRuns
    /\ run' = run + 1
    /\ prev' = [run |-> run, event |-> event, members |-> members,
                quorum |-> quorum_result, trace |-> trace, exc |-> exc,
                eth1 |-> eth1_status, assoc |-> assoc]
    /\ event' \in Events
    /\ stdin' \in OneMember
    /\ members' = <<>>
    /\ pc' = "load"
    /\ idx' = 0
    /\ serf_alive' = QueryFailed
    /\ quorum_result' = Unset
    /\ result' = 0 - 1
    /\ total_retries' = 0
    /\ attempts' = 0
    /\ connected' = FALSE
    /\ trace' = <<>>
    /\ exc' = NoExc
    /\ passes' = 0
    /\ UNCHANGED <<config, conf_file, escaped, eth1_status, assoc, peer_alive,
                   peer_quorum, lookup, nodes, applied>>

NextSeq == Next \/ NextRun

SpecSeq == InitSeq /\ [][NextSeq]_vars

----------------------------------------------------------------------------
(* Several nodes handle the failure of one peer at the same time.  Each      *)
(* runs main() for the member-failed event of the node of FailedZone; their  *)
(* steps interleave and they share nothing but the cloud.  nodes[n] is the   *)
(* handler of the node of zone n: its position, the status of its own        *)
(* standby interface and whether its associate call returned; applied is the *)
(* order in which the cloud applied the calls.                               *)

FailedZone == ZoneNames[MaxSurvivors + 1]

Survivors == {ZoneNames[i] : i \in 1 .. MaxSurvivors}

mainVars == <<config, event, stdin, members, pc, idx, serf_alive,
              quorum_result, peer_alive, peer_quorum, result, total_retries,
              attempts, connected, eth1_status, trace, exc, conf_file,
              escaped, passes, run, prev, lookup>>

InitSurvivors ==
    /\ config = Registry(MaxSurvivors + 1)
    /\ event = "member-failed"
    /\ stdin = <<>>
    /\ members = <<[ip |-> "10.0.0.9", role |-> ROLE, az |-> FailedZone]>>
    /\ pc = "done"
    /\ idx = 0
    /\ serf_alive = QueryFailed
    /\ quorum_result = Unset
    /\ peer_alive = QueryFailed
    /\ peer_quorum = Unset
    /\ result = 0 - 1
    /\ total_retries = 0
    /\ attempts = 0
    /\ connected = FALSE
    /\ eth1_status = "available"
    /\ trace = <<>>
    /\ exc = NoExc
    /\ conf_file = "ok"
    /\ escaped = NoExc
    /\ assoc = HomeAssoc(config)
    /\ passes = 0
    /\ run = 1
    /\ prev = NoPrev
    /\ lookup = NoLookup
    /\ nodes \in [Survivors -> [pc : {"quorum"}, eth1 : Statuses,
                                claimed : {FALSE}]]
    /\ applied = <<>>

\* main(): if not Quorum(conf.num_zones).alive: return
NodeQuorum(n) ==
    /\ nodes[n].pc = "quorum"
    /\ \E out \in {QueryFailed} \cup (0 .. num_zones(config)) :
         nodes' = [nodes EXCEPT ![n].pc =
                      IF Quorum(config, out) THEN "probe" ELSE "done"]
    /\ UNCHANGED <<mainVars, assoc, applied>>

\* main(): if not is_member_down(member.ip): continue
NodeProbe(n) ==
    /\ nodes[n].pc = "probe"
    /\ \E r \in {0, ECONNREFUSED, 0 - 1} :
         nodes' = [nodes EXCEPT ![n].pc = IF IsDown(r) THEN "attach" ELSE "done"]
    /\ UNCHANGED <<mainVars, assoc, applied>>

\* Handler.attach_interface up to the attach call; an exception of the cloud
\* ends main()
NodeAttach(n) ==
    /\ nodes[n].pc = "attach"
    /\ \/ /\ ShouldAttach(nodes[n].eth1)
          /\ nodes' = [nodes EXCEPT ![n].pc = "ifup", ![n].eth1 = "in-use"]
       \/ /\ ~ShouldAttach(nodes[n].eth1)
          /\ nodes' = [nodes EXCEPT ![n].pc = "claim"]
       \/ nodes' = [nodes EXCEPT ![n].pc = "done"]
    /\ UNCHANGED <<mainVars, assoc, applied>>

\* Handler.attach_interface: the passes of "while True" up to the one that
\* finds eth1
NodeIfUp(n) ==
    /\ nodes[n].pc = "ifup"
    /\ \E names \in IfconfigOutputs :
         /\ DevIsEth1(names)
         /\ nodes' = [nodes EXCEPT ![n].pc = "claim"]
    /\ UNCHANGED <<mainVars, assoc, applied>>

\* Handler.take_elastic_ip(FailedZone) on node n: the call is applied by the
\* cloud and returns, or raises
NodeClaim(n) ==
    /\ nodes[n].pc = "claim"
    /\ \/ LET iface == TakeInterface(FailedZone, n, nodes[n].eth1)
              after == Associate(assoc, FailedZone, n, iface, AllowReassociation)
          IN  /\ elastic_ip_allocation_id(config, FailedZone) # <<>>
              /\ assoc' = after
              /\ applied' =
                   IF [zone |-> FailedZone, node |-> n, iface |-> iface] \in after
                   THEN Append(applied, n) ELSE applied
              /\ nodes' = [nodes EXCEPT ![n].pc = "done", ![n].claimed = TRUE]
       \/ /\ nodes' = [nodes EXCEPT ![n].pc = "done"]
          /\ UNCHANGED <<assoc, applied>>
    /\ UNCHANGED mainVars

NextSurvivors ==
    \E n \in Survivors :
        \/ NodeQuorum(n)
        \/ NodeProbe(n)
        \/ NodeAttach(n)
        \/ NodeIfUp(n)
        \/ NodeClaim(n)

SpecSurvivors == InitSurvivors /\ [][NextSurvivors]_vars

----------------------------------------------------------------------------
(* Config.elastic_ip_allocation_id alone, for registries whose entries are   *)
(* dicts with the field, dicts without it, or no dicts                       *)

AllConfigs ==
    UNION {[zs -> AllEntryKinds] : zs \in (SUBSET Zones) \ {{}}}

InitConfig ==
    /\ config \in {MkConfig(k) : k \in AllConfigs}
    /\ event = "member-update"
    /\ stdin = <<>>
    /\ members = <<>>
    /\ pc = "lookup"
    /\ idx = 0
    /\ serf_alive = QueryFailed
    /\ quorum_result = Unset
    /\ peer_alive = QueryFailed
    /\ peer_quorum = Unset
    /\ result = 0 - 1
    /\ total_retries = 0
    /\ attempts = 0
    /\ connected = FALSE
    /\ eth1_status = "available"
    /\ trace = <<>>
    /\ exc = NoExc
    /\ conf_file = "ok"
    /\ escaped = NoExc
    /\ assoc = {}
    /\ passes = 0
    /\ run = 1
    /\ prev = NoPrev
    /\ lookup = NoLookup
    /\ nodes = <<>>
    /\ applied = <<>>

\* conf.elastic_ip_allocation_id(az) for a zone key of the registry
Lookup ==
    /\ pc = "lookup"
    /\ \E az \in DOMAIN config :
         lookup' = [az |-> az,
                    value |-> elastic_ip_allocation_id(config, az),
                    called |-> TRUE]
    /\ UNCHANGED <<config, event, stdin, members, pc, idx, serf_alive,
                   quorum_result, peer_alive, peer_quorum, result,
                   total_retries, attempts, connected, eth1_status, trace, exc,
                   conf_file, escaped, assoc, passes, run, prev, nodes, applied>>

NextConfig == Lookup

SpecConfig == InitConfig /\ [][NextConfig]_vars

----------------------------------------------------------------------------
(* Properties *)

T == num_zones(config)

CloudOps == {"associate", "attach", "detach", "ifup"}

Ops(t) == {t[k].op : k \in 1 .. Len(t)}

LeaveEvent == event \in {"member-leave", "member-failed"}

\* C1. Quorum gate: an associate, attach, detach or interface bring-up is
\* performed only when quorum() of this invocation returned true, and a run
\* whose alive count is below the threshold ends without any action.
C1_QuorumGate ==
    /\ (Ops(trace) \cap CloudOps # {}) => quorum_result = "yes"
    /\ (quorum_result # Unset /\ serf_alive < Threshold(T))
          => (pc = "done" /\ trace = <<>>)

\* Scenario D: three zones, one alive member, a member-failed event with
\* members: the run is over and nothing was done.
C1_Witness ==
    /\ T = 3 /\ serf_alive = 1 /\ quorum_result = "no"
    /\ event = "member-failed" /\ members # <<>>
    /\ pc = "done" /\ trace = <<>>

\* C2. The threshold is a strict majority (2 * N > T for T >= 1), so the two
\* sides of a partition never both have quorum.
C2_StrictMajority ==
    /\ (quorum_result # Unset /\ T >= 1) => 2 * Threshold(T) > T
    /\ ~(quorum_result = "yes" /\ peer_quorum = "yes")

\* The least n with 2 * n >= t
HalfRoundedUp(t) == CHOOSE n \in 0 .. t : 2 * n >= t /\ 2 * n <= t + 1

C4_FailClosed ==
    (quorum_result # Unset /\ serf_alive = QueryFailed) =>
        /\ quorum_result = "no"
        /\ pc = "done"
        /\ trace = <<>>

\* The query failed in a run that had members to fail over.
C4_Witness ==
    /\ quorum_result = "no" /\ serf_alive = QueryFailed
    /\ LeaveEvent /\ Len(members) = 2 /\ pc = "done"

Probed(i) ==
    \E k \in 1 .. Len(trace) :
        trace[k].peer = i /\ trace[k].op \in {"probe_up", "probe_down"}

\* C5. When handling one member of a leave/failed event fails, every later
\* member of the event is still probed.
C5_Containment ==
    (LeaveEvent /\ pc = "done" /\ exc # NoExc) =>
        \A i \in (idx + 1) .. Len(members) : Probed(i)

\* C6. On leave/failed every claim goes to the standby interface eth1.
C6_ClaimOnStandby ==
    \A k \in 1 .. Len(trace) :
        (trace[k].op = "associate" /\ trace[k].peer >= 1) => trace[k].iface = "eth1"

\* The positions of the trace that belong to member p
Before(k, op, p) == {j \in 1 .. (k - 1) : trace[j].op = op /\ trace[j].peer = p}

\* C7. For a member of a leave/failed event the claim comes after the probe
\* found it down, and when the attach was triggered, after the bring-up that
\* followed it saw the interface present.
C7_LeaveOrder ==
    \A k \in 1 .. Len(trace) :
        LET p == trace[k].peer
        IN  /\ (trace[k].op \in {"attach", "associate"} /\ p >= 1)
                => Before(k, "probe_down", p) # {}
            /\ trace[k].op = "attach"
                => (trace[k - 1].op = "probe_down" /\ trace[k - 1].peer = p)
            /\ trace[k].op = "ifup" => (k > 1 /\ trace[k - 1].op = "attach")
            /\ trace[k].op \in {"present", "absent"}
                => (k > 1 /\ trace[k - 1].op = "ifup")
            /\ (trace[k].op = "associate" /\ Before(k, "attach", p) # {})
                => (trace[k - 1].op = "present" /\ trace[k - 1].peer = p)
            /\ (trace[k].op = "associate" /\ p >= 1 /\ Before(k, "attach", p) = {})
                => (trace[k - 1].op = "probe_down" /\ trace[k - 1].peer = p)

\* Scenario B: the member of eu-west-1b failed, three zones, two alive.
C7_Witness ==
    /\ T = 3 /\ serf_alive = 2 /\ event = "member-failed" /\ attempts = 3
    /\ Len(trace) = 5
    /\ [k \in 1 .. 5 |-> trace[k].op]
          = <<"probe_down", "attach", "ifup", "present", "associate">>
    /\ trace[5] = Act("associate", ZoneNames[2], "eth1", 1, "-")

\* C8. A member that accepted a connection gets no attach, no bring-up and no
\* claim, and the loop goes on with the next member.
C8_FalsePositive ==
    \A k \in 1 .. Len(trace) :
        trace[k].op = "probe_up" =>
            LET p == trace[k].peer
            IN  /\ \A j \in 1 .. Len(trace) : (trace[j].peer = p => j = k)
                /\ idx > p
                /\ (k = Len(trace) /\ p < Len(members))
                      => (pc \in {"loop", "probe"} \/ exc = "KeyError")
                /\ (k = Len(trace) /\ p = Len(members))
                      => (pc = "done" /\ exc = NoExc)

\* Scenario C: the first member answered on the second attempt, the second
\* member was down and its address was claimed.
C8_Witness ==
    /\ Len(trace) >= 3
    /\ trace[1].op = "probe_up" /\ trace[1].peer = 1
    /\ trace[2].op = "probe_down" /\ trace[2].peer = 2
    /\ trace[Len(trace)].op = "associate" /\ trace[Len(trace)].peer = 2
    /\ pc = "done"

HasAlloc(az) ==
    az \in DOMAIN config /\ elastic_ip_allocation_id(config, az) # <<>>

\* C9. On member-join the local zone's address is claimed onto eth0, then the
\* standby interface is detached, only if it was in-use; a failed detach
\* leaves the claim in place.
C9_JoinSequence ==
    event = "member-join" =>
        /\ \A k \in 1 .. Len(trace) :
              \/ /\ trace[k] = Act("associate", current_az, "eth0", 0, "-")
                 /\ k = 1
              \/ /\ trace[k] = Act("detach", current_az, "eth1", 0, "in-use")
                 /\ k = Len(trace)
                 /\ HasAlloc(current_az) => (k = 2 /\ trace[1].op = "associate")
        /\ (pc = "join_detach" \/ exc = "DetachError")
              => (HasAlloc(current_az) => Ops(trace) = {"associate"})

\* Scenario A: three zones, two alive, claim then detach.
C9_Witness ==
    /\ event = "member-join" /\ T = 3 /\ serf_alive = 2 /\ pc = "done"
    /\ trace = <<Act("associate", current_az, "eth0", 0, "-"),
                 Act("detach", current_az, "eth1", 0, "in-use")>>

\* C10. is_member_down makes at most 3 attempts, none after a connection, and
\* returns down iff no attempt connected; an attempt that raises counts as
\* failed and does not escape.
C10_Probe ==
    /\ attempts <= TotalRetries
    /\ pc = "probe" => (~connected /\ attempts < TotalRetries /\ exc = NoExc)
    /\ pc = "attach" => (~connected /\ attempts = TotalRetries /\ exc = NoExc)
    /\ (LastOp = "probe_down" /\ trace[Len(trace)].peer = idx)
          => (~connected /\ attempts = TotalRetries
              /\ pc \in {"attach", "ifup", "claim", "done"})
    /\ LastOp = "probe_up"
          => (trace[Len(trace)].peer = idx - 1
              /\ pc \in {"loop", "probe", "done"}
              /\ pc \in {"loop", "done"} => (connected /\ attempts >= 1))

\* Every attempt raised: three attempts, member reported down.
C10_Witness ==
    /\ pc = "attach" /\ attempts = 3 /\ result = 0 - 1 /\ ~connected
    /\ LastOp = "probe_down"

\* C11. No exception leaves main(): every failure, a missing or malformed
\* zone file included, is caught and logged inside main().
C11_NoEscape ==
    /\ escaped = NoExc
    /\ pc # "exit"

\* The rows of a payload that parse
WellFormed(rows) == SelectSeq(rows, Parses)

\* C12. A row that does not parse is dropped alone: the rows that parse are
\* still parsed, filtered by role and handled.
C12_DropsRowAlone ==
    [][pc = "start" =>
          /\ members' = SelectRole(MapParse(WellFormed(stdin)))
          /\ pc' = AfterRead(members')]_vars

\* C13. For a zone key of the registry, the lookup returns the entry's
\* elastic_ip_allocation_id when the entry has the field, and None otherwise.
C13_Lookup ==
    lookup.called =>
        LET e == config[lookup.az]
        IN  IF e.isdict /\ "elastic_ip_allocation_id" \in DOMAIN e.fields
            THEN /\ lookup.value = e.fields["elastic_ip_allocation_id"]
                 /\ lookup.value = AllocId(lookup.az)
            ELSE lookup.value = <<>>

\* The registry of test_complex_without_eip: three dicts without the field.
C13_Witness ==
    /\ lookup.called /\ lookup.az = ZoneNames[1] /\ lookup.value = <<>>
    /\ T = 3
    /\ \A z \in DOMAIN config : config[z].isdict /\ DOMAIN config[z].fields = {"eth1_id"}

\* The zone whose address the current step claims
ClaimedZone ==
    IF event = "member-join" THEN current_az
    ELSE IF idx \in 1 .. Len(members) THEN members[idx].az
    ELSE NoAz

NoAllocEntry(z) == z \in DOMAIN config /\ ~HasAlloc(z)

\* C14. A zone of the registry without an allocation id is no failover
\* target: no associate call is issued for it and the claim step raises
\* nothing, so the run goes on with the next step or member.
C14_NoAllocNoClaim ==
    /\ \A k \in 1 .. Len(trace) :
          trace[k].op = "associate" => HasAlloc(trace[k].az)
    /\ (NoAllocEntry(ClaimedZone) /\ LocalZoneKnown)
          => exc \notin {"AssociateError", "ZoneKeyError"}
    /\ (event = "member-join" /\ NoAllocEntry(current_az) /\ quorum_result = "yes")
          => (pc \in {"join_claim", "join_detach"}
              \/ (pc = "done" /\ exc \in {NoExc, "DescribeError", "DetachError"}))

\* The member of eu-west-1b is down and its zone has no allocation id; the
\* member of eu-west-1c after it is handled and its address is claimed.
C14_Witness ==
    /\ LeaveEvent /\ pc = "done" /\ exc = NoExc /\ Len(members) = 2
    /\ members[1].az = ZoneNames[2] /\ NoAllocEntry(ZoneNames[2])
    /\ members[2].az = ZoneNames[3]
    /\ trace # <<>> /\ trace[1].op = "probe_down"
    /\ \A k \in 1 .. Len(trace) : trace[k].op = "associate" => trace[k].peer = 2
    /\ LastOp = "associate"

\* C15. A payload without any row of the expected role is a no-op: main()
\* returns without the quorum query, without any action and without error.
C15_NoMembersNoOp ==
    [][(pc = "start" /\ ~ParseRaises(stdin)
        /\ \A i \in 1 .. Len(stdin) : stdin[i].role # ROLE)
          => /\ pc' = "done"
             /\ members' = <<>>
             /\ exc' = NoExc /\ escaped' = NoExc
             /\ quorum_result' = Unset /\ serf_alive' = serf_alive
             /\ trace' = <<>>
             /\ assoc' = assoc /\ eth1_status' = eth1_status]_vars

\* A member-failed run that ended with no members, no query and no action.
C15_Witness ==
    /\ pc = "done" /\ members = <<>> /\ exc = NoExc /\ conf_file = "ok"
    /\ quorum_result = Unset /\ trace = <<>> /\ event = "member-failed"

OpsAt(op) == {k \in 1 .. Len(trace) : trace[k].op = op}

\* C19. The attach (and the bring-up after it) is issued only for a standby
\* interface that is available, the detach only for one that is in-use; in
\* any other status the step does nothing and raises nothing, the claim of
\* the member's zone follows, and one event triggers at most one attach.
C19_StatusGuards ==
    /\ \A k \in OpsAt("attach") : trace[k].was = "available"
    /\ \A k \in OpsAt("detach") : trace[k].was = "in-use"
    /\ \A k \in OpsAt("ifup") : k - 1 \in OpsAt("attach")
    /\ Cardinality(OpsAt("attach")) <= 1
    /\ exc = "AttachError" => eth1_status = "available"
    /\ exc = "DetachError" => eth1_status = "in-use"
    /\ (pc = "claim" /\ LastOp = "probe_down") => eth1_status # "available"
    /\ (LeaveEvent /\ pc = "done" /\ eth1_status # "available" /\ LocalZoneKnown
        /\ LastOp = "probe_down" /\ trace[Len(trace)].peer = idx)
          => exc \in {"DescribeError", "AssociateError", "ZoneKeyError"}

\* Two members down in one event: one attach, two claims.
C19_Witness ==
    /\ LeaveEvent /\ pc = "done" /\ Len(trace) = 7
    /\ [k \in 1 .. 7 |-> trace[k].op]
          = <<"probe_down", "attach", "ifup", "present", "associate",
              "probe_down", "associate">>
    /\ trace[7].peer = 2 /\ eth1_status = "in-use"

\* C18. Every dispatch ends: main() returns (or is left by an exception)
\* whatever the collaborators answer.
C18_Terminates == <>(pc \in {"done", "exit"})

\* This node holds the address of another zone on its attached standby
\* interface
HeldZones ==
    {x.zone : x \in {y \in assoc : y.node = current_az /\ y.iface = "eth1"
                                    /\ y.zone # current_az}}

\* C17. A takeover is held while the failed zone is down: handling the join
\* of a member of another zone leaves the standby interface attached.
C17_TakeoverHeld ==
    [][(/\ prev.run >= 1
        /\ {"attach", "associate"} \subseteq Ops(prev.trace)
        /\ eth1_status = "in-use" /\ HeldZones # {}
        /\ event = "member-join"
        /\ \A i \in 1 .. Len(members) :
              members[i].az \notin HeldZones \cup {current_az})
          => eth1_status' = "in-use"]_vars

ProbesOf(t) == SelectSeq(t, LAMBDA a : a.op \in {"probe_up", "probe_down"})

IsPrefix(a, b) == Len(a) <= Len(b) /\ \A k \in 1 .. Len(a) : a[k] = b[k]

\* This invocation handles the event of the previous one, which ran to its
\* end without an exception, with the same quorum and probe outcomes so far
SameAsPrev ==
    /\ prev.run >= 1 /\ prev.exc = NoExc
    /\ event = prev.event
    /\ pc \notin {"load", "start"} /\ exc # "ValueError"
    /\ members = prev.members
    /\ quorum_result # Unset => quorum_result = prev.quorum
    /\ IsPrefix(ProbesOf(trace), ProbesOf(prev.trace))

ZoneAssoc(z) == {x \in assoc : x.zone = z}

AllFinished == \A n \in DOMAIN nodes : nodes[n].pc = "done"

\* C16. While survivors handle the same failure concurrently the failed
\* zone's address is on at most one interface, and when all have finished
\* and some associate call returned, it is on the standby interface of the
\* survivor whose call was applied last.
C16_LastWriterWins ==
    /\ Cardinality(ZoneAssoc(FailedZone)) <= 1
    /\ (AllFinished /\ \E n \in DOMAIN nodes : nodes[n].claimed)
         => /\ applied # <<>>
            /\ ZoneAssoc(FailedZone) =
                 {[zone |-> FailedZone, node |-> applied[Len(applied)],
                   iface |-> "eth1"]}

\* Every survivor claimed, one after the other, and the last one holds the
\* address.
C16_Witness ==
    /\ AllFinished
    /\ Len(applied) = MaxSurvivors
    /\ applied[1] # applied[Len(applied)]
    /\ ZoneAssoc(FailedZone) =
         {[zone |-> FailedZone, node |-> applied[Len(applied)], iface |-> "eth1"]}
====
